---- MODULE Spec2Model ----
(***************************************************************************)
(* A model of `throttle` of src/index.ts (functools): the closure state    *)
(* (`pending`, `timeout`), the host's timer table behind setTimeout /      *)
(* clearTimeout, and the four entry points `throttled`, `flush`, `clear`   *)
(* and `next` (the timer callback).  JavaScript runs each entry point to   *)
(* completion, so each one is one atomic action.                           *)
(*                                                                         *)
(* Time is kept relative: every scheduled callback carries the time left   *)
(* until it may fire, and Tick lets one time unit pass.  A callback fires  *)
(* no earlier than its delay, possibly later.                              *)
(*                                                                         *)
(* The k-th call of the wrapper passes the argument tuple <<k>>, so that   *)
(* every execution of fn can be attributed to the call it came from.       *)
(*                                                                         *)
(* The wrapped function fn returns and does not call the wrapper, except   *)
(* in the specifications that say otherwise (SpecThrow, SpecReentrant).    *)
(*                                                                         *)
(* The module also models the closures of `memoize`, `memoize0` and        *)
(* `memoizeOne`, each under a specification of its own.                    *)
(***************************************************************************)
EXTENDS Integers, Sequences, FiniteSets

\* Largest delay `ms` a limiter is constructed with.
MaxDelay == 2

\* Number of calls of the wrapper in one behaviour.
MaxCalls == 3

\* Number of calls of a memoized wrapper in one behaviour.
MaxMemoCalls == 6

\* Number of invocations of fn that throw, in one behaviour of memoizeOne.
MaxThrows == 1

VARIABLES
    leading,    \* option `leading`  (index.ts:131)
    trailing,   \* option `trailing` (index.ts:131)
    debounce,   \* option `debounce` (index.ts:131)
    ms,         \* parameter `ms`    (index.ts:130)
    pending,    \* `let pending`: Undefined or <<args>> (index.ts:133)
    timeout,    \* `let timeout`: NoHandle or a timer handle (index.ts:134)
    timers,     \* the host's scheduled callbacks: {[id, left]}
    execs,      \* log of the executions of fn: <<[args, by, n]>>
    armed,      \* the entry point that armed `timeout`, and the call count then
    calls,      \* log of the calls of the wrapper: <<[idle, gap]>>
    nCalls,     \* number of calls of the wrapper so far
    op,         \* the operation performed by the last step
    prev,       \* the state before the last step (see Snapshot)
    lost,       \* arguments overwritten in `pending` before being executed
    sinceExec,  \* time since the last execution of fn, saturating at ms
    sinceCall,  \* time since the last call of the wrapper, saturating at ms
    fired,      \* whether the timer callback ran since the execution before the last
    lastGap,    \* sinceExec at the last execution (-1: it was the first)
    lastAge,    \* sinceCall at the last execution
    lastFired,  \* whether a timer callback ran between the last two executions
    quiet,      \* no flush() or clear() since the last call of the wrapper
    clr,        \* the last clear(): calls and executions before it, timers it left
    firings,    \* runs of the timer callback since the last call of the wrapper
    outcome,    \* whether the last step ended in an error thrown by fn, and
                \* the state the step would have left had fn returned
    cache,      \* memoize: `cache`, the default Map (index.ts:32)
    m0,         \* memoize0: `cached` and `result` (index.ts:47-48)
    m1,         \* memoizeOne: `prevArgs` and `result` (index.ts:78-79)
    mlog        \* log of the calls of a memoized wrapper:
                \* <<[args, invoked, threw, ret]>>

cfg  == <<leading, trailing, debounce, ms>>
prog == <<pending, timeout, timers, execs>>
hist == <<armed, calls, nCalls, op, prev, lost, sinceExec, sinceCall, fired,
          lastGap, lastAge, lastFired, quiet, clr, firings, outcome>>
tvars == <<cfg, prog, hist>>
memo == <<cache, m0, m1, mlog>>
vars == <<tvars, memo>>

\* The value `undefined` of `pending`; a captured tuple `args` is <<args>>.
Undefined == <<>>

\* The value `undefined` of `timeout`; handles are positive.
NoHandle == 0

\* The closure state and the timer table, as the record the operators below
\* transform; `by` names the entry point that is running and `n` counts the
\* calls of the wrapper made so far.  `will` is what fn does when it is
\* executed ("return", "throw", or "reenter": call the wrapper and return)
\* and `thrown` whether an error thrown by fn is propagating out of the
\* entry point.
StateAs(by, n, will) ==
    [pending |-> pending, timeout |-> timeout, timers |-> timers,
     execs |-> execs, armed |-> armed, by |-> by, n |-> n,
     will |-> will, thrown |-> FALSE]

State(by, n) == StateAs(by, n, "return")

\* A handle the host has not handed out to a live callback.
FreshHandle(s) ==
    CHOOSE h \in 1..(Cardinality(s.timers) + 2) :
        /\ h # s.timeout
        /\ \A t \in s.timers : t.id # h

\* The delay the host gives a callback scheduled for `ms`: a negative delay
\* counts as none.
Delay == IF ms > 0 THEN ms ELSE 0

\* `timeout = setTimeout(next, ms)`.  In `next` and in `throttled` the
\* statement follows `fn(...args)` and is not reached when fn threw.
SetTimeout(s) ==
    IF s.thrown
    THEN s
    ELSE LET h == FreshHandle(s)
         IN  [s EXCEPT !.timeout = h,
                       !.timers = @ \cup {[id |-> h, left |-> Delay]},
                       !.armed = [by |-> s.by, n |-> s.n]]

\* `clearTimeout(timeout)`: a no-op when `timeout` is undefined.
ClearTimeout(s) ==
    [s EXCEPT !.timers = {t \in @ : t.id # s.timeout}]

RECURSIVE throttled(_, _)

\* `fn(...args)`: the wrapped function, observed through the log; it
\* returns, throws, or calls the wrapper and returns.  The call it makes is
\* one more call of the wrapper, in which fn returns.
fn(s, args) ==
    LET s1 == [s EXCEPT !.execs = Append(@, [args |-> args, by |-> s.by, n |-> s.n]),
                        !.thrown = (s.will = "throw")]
    IN  IF s.will = "reenter"
        THEN LET r == throttled([s1 EXCEPT !.by = "call", !.n = s.n + 1,
                                           !.will = "return"],
                                <<s.n + 1>>)
             IN  [r EXCEPT !.by = s.by]
        ELSE s1

\* `next` without the re-arming `timeout = setTimeout(next, ms)` after a
\* pending call was taken.
next_NoRearm(s) ==
    LET s1 == [s EXCEPT !.timeout = NoHandle]
    IN  IF s1.pending = Undefined
        THEN s1
        ELSE LET args == s1.pending[1]
                 s2 == [s1 EXCEPT !.pending = Undefined]
             IN  IF trailing THEN fn(s2, args) ELSE s2

\* `next` without `pending = undefined`.
next_KeepPending(s) ==
    LET s1 == [s EXCEPT !.timeout = NoHandle]
    IN  IF s1.pending = Undefined
        THEN s1
        ELSE LET args == s1.pending[1]
                 s3 == IF trailing THEN fn(s1, args) ELSE s1
             IN  SetTimeout(s3)

\* `next` with `fn(...args)` not guarded by `trailing`.
next_AlwaysTrailing(s) ==
    LET s1 == [s EXCEPT !.timeout = NoHandle]
    IN  IF s1.pending = Undefined
        THEN s1
        ELSE LET args == s1.pending[1]
                 s2 == [s1 EXCEPT !.pending = Undefined]
             IN  SetTimeout(fn(s2, args))

\* `next` without the early return `if (!pending) return`: it re-arms the
\* timer also when nothing is pending.
next_AlwaysRearm(s) ==
    LET s1 == [s EXCEPT !.timeout = NoHandle]
    IN  IF s1.pending = Undefined
        THEN SetTimeout(s1)
        ELSE LET args == s1.pending[1]
                 s2 == [s1 EXCEPT !.pending = Undefined]
                 s3 == IF trailing THEN fn(s2, args) ELSE s2
             IN  SetTimeout(s3)

\* `next` with `timeout = setTimeout(next, ms)` inside `if (trailing)`.
next_RearmOnlyTrailing(s) ==
    LET s1 == [s EXCEPT !.timeout = NoHandle]
    IN  IF s1.pending = Undefined
        THEN s1
        ELSE LET args == s1.pending[1]
                 s2 == [s1 EXCEPT !.pending = Undefined]
             IN  IF trailing THEN SetTimeout(fn(s2, args)) ELSE s2

\* function next()
next(s) ==
    LET s1 == [s EXCEPT !.timeout = NoHandle]
    IN  IF s1.pending = Undefined
        THEN s1
        ELSE LET args == s1.pending[1]
                 s2 == [s1 EXCEPT !.pending = Undefined]
                 s3 == IF trailing THEN fn(s2, args) ELSE s2
             IN  SetTimeout(s3)

\* `flush` that cancels the timer and does not run `next`.
flush_CancelOnly(s) ==
    [ClearTimeout(s) EXCEPT !.timeout = NoHandle]

\* `flush` without `clearTimeout(timeout)`.
flush_NoCancel(s) == next(s)

\* function flush()
flush(s) == next(ClearTimeout(s))

\* `clear` without `pending = undefined`.
clear_KeepPending(s) ==
    [ClearTimeout(s) EXCEPT !.timeout = NoHandle]

\* `clear` without `clearTimeout(timeout)`.
clear_NoCancel(s) ==
    [s EXCEPT !.timeout = NoHandle, !.pending = Undefined]

\* `clear` that starts a new interval as `next` does.
clear_Rearm(s) ==
    SetTimeout([ClearTimeout(s) EXCEPT !.timeout = NoHandle, !.pending = Undefined])

\* function clear()
clear(s) ==
    [ClearTimeout(s) EXCEPT !.timeout = NoHandle, !.pending = Undefined]

\* `throttled` that keeps the call already pending (`pending = pending || args`).
throttled_KeepFirst(s, args) ==
    LET s1 == IF s.pending = Undefined THEN [s EXCEPT !.pending = <<args>>] ELSE s
    IN  IF s1.timeout = NoHandle
        THEN LET s2 == IF leading
                       THEN fn([s1 EXCEPT !.pending = Undefined], args)
                       ELSE s1
             IN  SetTimeout(s2)
        ELSE IF debounce
             THEN SetTimeout(ClearTimeout(s1))
             ELSE s1

\* `throttled` without `pending = undefined` on the leading edge.
throttled_LeadingKeepsPending(s, args) ==
    LET s1 == [s EXCEPT !.pending = <<args>>]
    IN  IF s1.timeout = NoHandle
        THEN LET s2 == IF leading THEN fn(s1, args) ELSE s1
             IN  SetTimeout(s2)
        ELSE IF debounce
             THEN SetTimeout(ClearTimeout(s1))
             ELSE s1

\* `throttled` that executes on the leading edge whatever `leading` is.
throttled_AlwaysLeading(s, args) ==
    LET s1 == [s EXCEPT !.pending = <<args>>]
    IN  IF s1.timeout = NoHandle
        THEN SetTimeout(fn([s1 EXCEPT !.pending = Undefined], args))
        ELSE IF debounce
             THEN SetTimeout(ClearTimeout(s1))
             ELSE s1

\* `throttled` without the `if (debounce)` branch.
throttled_NoDebounce(s, args) ==
    LET s1 == [s EXCEPT !.pending = <<args>>]
    IN  IF s1.timeout = NoHandle
        THEN LET s2 == IF leading
                       THEN fn([s1 EXCEPT !.pending = Undefined], args)
                       ELSE s1
             IN  SetTimeout(s2)
        ELSE s1

\* `throttled` with `timeout = setTimeout(next, ms)` inside `if (leading)`.
throttled_ArmOnlyLeading(s, args) ==
    LET s1 == [s EXCEPT !.pending = <<args>>]
    IN  IF s1.timeout = NoHandle
        THEN IF leading
             THEN SetTimeout(fn([s1 EXCEPT !.pending = Undefined], args))
             ELSE s1
        ELSE IF debounce
             THEN SetTimeout(ClearTimeout(s1))
             ELSE s1

\* `throttled` whose debounce branch arms a timer without
\* `clearTimeout(timeout)`.
throttled_DebounceNoCancel(s, args) ==
    LET s1 == [s EXCEPT !.pending = <<args>>]
    IN  IF s1.timeout = NoHandle
        THEN LET s2 == IF leading
                       THEN fn([s1 EXCEPT !.pending = Undefined], args)
                       ELSE s1
             IN  SetTimeout(s2)
        ELSE IF debounce
             THEN SetTimeout(s1)
             ELSE s1

\* `throttled` that re-arms the timer in an open window whatever `debounce`
\* is.
throttled_AlwaysDebounce(s, args) ==
    LET s1 == [s EXCEPT !.pending = <<args>>]
    IN  IF s1.timeout = NoHandle
        THEN LET s2 == IF leading
                       THEN fn([s1 EXCEPT !.pending = Undefined], args)
                       ELSE s1
             IN  SetTimeout(s2)
        ELSE SetTimeout(ClearTimeout(s1))

\* function throttled(...args)
throttled(s, args) ==
    LET s1 == [s EXCEPT !.pending = <<args>>]
    IN  IF s1.timeout = NoHandle
        THEN LET s2 == IF leading
                       THEN fn([s1 EXCEPT !.pending = Undefined], args)
                       ELSE s1
             IN  SetTimeout(s2)
        ELSE IF debounce
             THEN SetTimeout(ClearTimeout(s1))
             ELSE s1

\* What the properties need of the state before a step: the closure state,
\* the timer table, the number of executions, the operation before and who
\* armed the timer.
Snapshot ==
    [pending |-> pending, timeout |-> timeout, timers |-> timers,
     count |-> Len(execs), op |-> op, armed |-> armed]

\* Saturating clock.
Later(c) == IF c < ms THEN c + 1 ELSE c

\* `throttle(fn, ms, { leading, trailing, debounce })` with `ms` among
\* `delays`: the limiter as constructed.
Construct(delays) ==
    /\ leading \in BOOLEAN
    /\ trailing \in BOOLEAN
    /\ debounce \in BOOLEAN
    /\ ms \in delays
    /\ pending = Undefined
    /\ timeout = NoHandle
    /\ timers = {}
    /\ execs = <<>>
    /\ armed = [by |-> "none", n |-> 0]
    /\ calls = <<>>
    /\ nCalls = 0
    /\ op = "none"
    /\ prev = [pending |-> Undefined, timeout |-> NoHandle, timers |-> {},
               count |-> 0, op |-> "none", armed |-> armed]
    /\ lost = {}
    /\ sinceExec = ms
    /\ sinceCall = ms
    /\ fired = FALSE
    /\ lastGap = -1
    /\ lastAge = 0
    /\ lastFired = FALSE
    /\ quiet = TRUE
    /\ clr = [calls |-> 0, execs |-> 0, old |-> {}, fired |-> FALSE]
    /\ firings = 0
    /\ outcome = [error |-> FALSE, pending |-> Undefined, armed |-> FALSE,
                  reentered |-> FALSE]

\* The closures of `memoize(fn)`, `memoize0(fn)` and `memoizeOne(fn)` as
\* constructed: an empty Map, nothing cached, no previous arguments.
MemoInit ==
    /\ cache = {}
    /\ m0 = [cached |-> FALSE, result |-> "undefined"]
    /\ m1 = [prevArgs |-> Undefined, result |-> 0]
    /\ mlog = <<>>

Init == Construct(0..MaxDelay) /\ MemoInit

\* The step from the current state to the result `s` of an entry point:
\* the program variables take the values of `s` and the observers of the
\* executions are brought up to date.  `age` is the time since the last call
\* and `timer` says whether the step is a run of the timer callback.
Commit(s, age, timer) ==
    /\ pending' = s.pending
    /\ timeout' = s.timeout
    /\ timers' = s.timers
    /\ execs' = s.execs
    /\ armed' = s.armed
    /\ op' = s.by
    /\ prev' = Snapshot
    /\ IF Len(s.execs) > Len(execs)
       THEN /\ lastGap' = IF execs = <<>> THEN -1 ELSE sinceExec
            /\ lastAge' = age
            /\ lastFired' = (fired \/ timer)
            /\ sinceExec' = 0
            /\ fired' = FALSE
       ELSE /\ UNCHANGED <<lastGap, lastAge, lastFired, sinceExec>>
            /\ fired' = (fired \/ timer)
    /\ firings' = IF s.by = "call" THEN 0
                  ELSE IF timer THEN firings + 1 ELSE firings
    /\ UNCHANGED <<cfg, memo>>

\* The outcome of a step that left `s`, where `sn` is what the same entry
\* point leaves when fn returns.
Outcome(s, sn) ==
    [error |-> s.thrown, pending |-> sn.pending, armed |-> sn.timeout # NoHandle,
     reentered |-> s.n # sn.n]

\* The log of the calls after an entry point that left `s`: a call that fn
\* made finds no timer armed, no time after the call before it.
Reentered(s, log) ==
    IF Len(log) < s.n THEN Append(log, [idle |-> TRUE, gap |-> 0]) ELSE log

\* A call `throttled(...args)` of the wrapper, in which fn, if executed,
\* does `will`; the k-th call passes <<k>>.
CallAs(will) ==
    /\ nCalls < MaxCalls
    /\ LET s  == throttled(StateAs("call", nCalls + 1, will), <<nCalls + 1>>)
           sn == throttled(State("call", nCalls + 1), <<nCalls + 1>>)
       IN  /\ will = "throw" => s.thrown
           /\ will = "reenter" => s.n > nCalls + 1 /\ s.n <= MaxCalls
           /\ Commit(s, 0, FALSE)
           /\ outcome' = Outcome(s, sn)
           /\ nCalls' = s.n
           /\ calls' = Reentered(s, Append(calls, [idle |-> timeout = NoHandle,
                                                   gap |-> sinceCall]))
    /\ lost' = IF pending = Undefined THEN lost ELSE lost \cup {pending[1]}
    /\ sinceCall' = 0
    /\ quiet' = TRUE
    /\ UNCHANGED clr

\* A call of `flush()`, in which fn, if executed, does `will`.
FlushAs(will) ==
    /\ LET s  == flush(StateAs("flush", nCalls, will))
           sn == flush(State("flush", nCalls))
       IN  /\ will = "throw" => s.thrown
           /\ will = "reenter" => s.n > nCalls /\ s.n <= MaxCalls
           /\ Commit(s, sinceCall, FALSE)
           /\ outcome' = Outcome(s, sn)
           /\ nCalls' = s.n
           /\ calls' = Reentered(s, calls)
           /\ sinceCall' = IF s.n > nCalls THEN 0 ELSE sinceCall
    /\ quiet' = FALSE
    /\ UNCHANGED <<lost, clr>>

\* The host runs a scheduled callback whose delay has elapsed: the callback
\* leaves the timer table and `next` runs; fn, if executed, does `will`.
FireAs(will) ==
    \E t \in timers :
        /\ t.left = 0
        /\ LET s  == next([StateAs("timer", nCalls, will) EXCEPT !.timers = @ \ {t}])
               sn == next([State("timer", nCalls) EXCEPT !.timers = @ \ {t}])
           IN  /\ will = "throw" => s.thrown
               /\ will = "reenter" => s.n > nCalls /\ s.n <= MaxCalls
               /\ Commit(s, sinceCall, TRUE)
               /\ outcome' = Outcome(s, sn)
               /\ nCalls' = s.n
               /\ calls' = Reentered(s, calls)
               /\ sinceCall' = IF s.n > nCalls THEN 0 ELSE sinceCall
        /\ clr' = [clr EXCEPT !.old = @ \ {t.id},
                              !.fired = @ \/ t.id \in clr.old]
        /\ UNCHANGED <<lost, quiet>>

\* The entry points with a function fn that returns.
Call == CallAs("return")

Flush == FlushAs("return")

Fire == FireAs("return")

\* A call of `clear()`.
Clear ==
    /\ LET s == clear(State("clear", nCalls))
       IN  /\ Commit(s, sinceCall, FALSE)
           /\ outcome' = Outcome(s, s)
           /\ clr' = [calls |-> nCalls, execs |-> Len(s.execs),
                      old |-> {t.id : t \in s.timers},
                      fired |-> clr.fired]
    /\ quiet' = FALSE
    /\ UNCHANGED <<nCalls, calls, lost, sinceCall>>

\* One unit of time passes.
Tick ==
    /\ \/ \E t \in timers : t.left > 0
       \/ sinceExec < ms
       \/ sinceCall < ms
    /\ timers' = {[id |-> t.id, left |-> IF t.left > 0 THEN t.left - 1 ELSE 0] :
                    t \in timers}
    /\ sinceExec' = Later(sinceExec)
    /\ sinceCall' = Later(sinceCall)
    /\ op' = "tick"
    /\ prev' = Snapshot
    /\ UNCHANGED <<cfg, memo, pending, timeout, execs, armed, calls, nCalls, lost, fired,
                   lastGap, lastAge, lastFired, quiet, clr, firings, outcome>>

Next == Call \/ Flush \/ Clear \/ Fire \/ Tick

Spec == Init /\ [][Next]_vars

\* Only calls of the wrapper and timer firings: no flush(), no clear().
NextCalls == Call \/ Fire \/ Tick

SpecCalls == Init /\ [][NextCalls]_vars

\* Calls, flush() and timer firings, where a scheduled callback that is due
\* is eventually run and time does not stop.
NextLive == Call \/ Flush \/ Fire \/ Tick

SpecLive == Init /\ [][NextLive]_vars /\ WF_vars(Fire) /\ WF_vars(Tick)

\* The entry points in which fn is executed and throws.
CallThrows == CallAs("throw")

FlushThrows == FlushAs("throw")

FireThrows == FireAs("throw")

\* A function fn that returns or throws.
NextThrow ==
    Call \/ Flush \/ Clear \/ Fire \/ Tick \/ CallThrows \/ FlushThrows \/ FireThrows

SpecThrow == Init /\ [][NextThrow]_vars

\* The entry points in which fn is executed and calls the wrapper.
CallReenters == CallAs("reenter")

FlushReenters == FlushAs("reenter")

FireReenters == FireAs("reenter")

\* A function fn that returns, or calls the wrapper and returns.
NextReentrant ==
    Call \/ Flush \/ Clear \/ Fire \/ Tick \/ CallReenters \/ FlushReenters
        \/ FireReenters

SpecReentrant == Init /\ [][NextReentrant]_vars

\* A limiter constructed with any delay, a negative one included.
InitAnyDelay == Construct(-1..MaxDelay) /\ MemoInit

SpecAnyDelay == InitAnyDelay /\ [][Next]_vars

----------------------------------------------------------------------------
(***************************************************************************)
(* memoize, memoize0, memoizeOne.  JavaScript values are named by strings; *)
(* "NaN", "+0" and "-0" are the values on which the equalities of the      *)
(* language differ.                                                        *)
(***************************************************************************)

\* Arguments of the memoized functions.
Vals == {"a", "b", "NaN", "+0", "-0"}

\* Argument tuples of the function given to memoizeOne.
ArgTuples ==
    {<<>>, <<"NaN">>, <<"+0">>, <<"-0">>, <<"NaN", "+0">>, <<"NaN", "-0">>}

\* Values the function given to memoize0 returns.
Results == Vals \cup {"undefined"}

\* `a === b`.
StrictEquals(a, b) ==
    /\ a # "NaN"
    /\ b # "NaN"
    /\ a = b \/ {a, b} = {"+0", "-0"}

\* `Object.is(a, b)`: NaN is NaN, +0 is not -0.
ObjectIs(a, b) == a = b

\* The key equality of Map (SameValueZero): NaN is NaN, +0 is -0.
SameValueZero(a, b) == a = b \/ {a, b} = {"+0", "-0"}

\* A Map lookup that compares keys with `===`.
has_StrictEquals(c, key) == \E e \in c : StrictEquals(e.key, key)

\* `cache.has(key)` of a Map, a set of entries [key, value].
has(c, key) == \E e \in c : SameValueZero(e.key, key)

\* `cache.get(key)`.
get(c, key) == (CHOOSE e \in c : SameValueZero(e.key, key)).value

\* `cache.set(key, value)`; a Map stores the key -0 as +0.
set(c, key, value) ==
    {e \in c : ~SameValueZero(e.key, key)}
        \cup {[key |-> IF key = "-0" THEN "+0" ELSE key, value |-> value]}

\* The number of invocations of fn so far.
Invocations == Cardinality({i \in 1..Len(mlog) : mlog[i].invoked})

\* What fn returns in memoize and memoizeOne: a value that differs from
\* invocation to invocation, as `() => ++i` of the tests.
FnResult == Invocations + 1

\* The wrapper returned by memoize(fn): the Map after the call and what the
\* call did.
memoize(c, arg) ==
    IF has(c, arg)
    THEN [cache |-> c, invoked |-> FALSE, threw |-> FALSE, ret |-> get(c, arg)]
    ELSE LET result == FnResult
         IN  [cache |-> set(c, arg, result),
              invoked |-> TRUE, threw |-> FALSE, ret |-> result]

\* memoize0 that takes `result === undefined` for "not cached".
memoize0_ResultAsFlag(m, will, value) ==
    IF m.result = "undefined"
    THEN IF will = "throw"
         THEN [m |-> m, invoked |-> TRUE, threw |-> TRUE, ret |-> "none"]
         ELSE [m |-> [cached |-> TRUE, result |-> value],
               invoked |-> TRUE, threw |-> FALSE, ret |-> value]
    ELSE [m |-> m, invoked |-> FALSE, threw |-> FALSE, ret |-> m.result]

\* The wrapper returned by memoize0(fn), where fn returns `value` or throws.
memoize0(m, will, value) ==
    IF ~m.cached
    THEN IF will = "throw"
         THEN [m |-> m, invoked |-> TRUE, threw |-> TRUE, ret |-> "none"]
         ELSE [m |-> [cached |-> TRUE, result |-> value],
               invoked |-> TRUE, threw |-> FALSE, ret |-> value]
    ELSE [m |-> m, invoked |-> FALSE, threw |-> FALSE, ret |-> m.result]

\* The loop of arrayEqual from index i on.
RECURSIVE ArrayEqualFrom(_, _, _)
ArrayEqualFrom(prv, nxt, i) ==
    IF i > Len(nxt)
    THEN TRUE
    ELSE IF ~ObjectIs(prv[i], nxt[i])
         THEN FALSE
         ELSE ArrayEqualFrom(prv, nxt, i + 1)

\* function arrayEqual(prev, next)
arrayEqual(prv, nxt) ==
    IF Len(prv) # Len(nxt) THEN FALSE ELSE ArrayEqualFrom(prv, nxt, 1)

\* The wrapper returned by memoizeOne(fn), where fn returns or throws.
memoizeOne(m, args, will) ==
    IF m.prevArgs = Undefined \/ ~arrayEqual(args, m.prevArgs[1])
    THEN LET m2 == [m EXCEPT !.prevArgs = <<args>>]
         IN  IF will = "throw"
             THEN [m |-> m2, invoked |-> TRUE, threw |-> TRUE, ret |-> 0]
             ELSE [m |-> [m2 EXCEPT !.result = FnResult],
                   invoked |-> TRUE, threw |-> FALSE, ret |-> FnResult]
    ELSE [m |-> m, invoked |-> FALSE, threw |-> FALSE, ret |-> m.result]

\* The log after a call with `args` that did `r`.
Logged(args, r) ==
    Append(mlog, [args |-> args, invoked |-> r.invoked, threw |-> r.threw,
                  ret |-> r.ret])

\* A call of the wrapper of memoize.
MemoizeCall ==
    \E arg \in Vals :
        /\ Len(mlog) < MaxMemoCalls
        /\ LET r == memoize(cache, arg)
           IN  /\ cache' = r.cache
               /\ mlog' = Logged(arg, r)
        /\ UNCHANGED <<tvars, m0, m1>>

\* A call of the wrapper of memoize0, in which fn, if invoked, does `will`.
Memoize0As(will) ==
    \E value \in Results :
        /\ Len(mlog) < MaxMemoCalls
        /\ LET r == memoize0(m0, will, value)
           IN  /\ will = "throw" => r.threw
               /\ will = "throw" => value = "undefined"
               /\ m0' = r.m
               /\ mlog' = Logged(<<>>, r)
        /\ UNCHANGED <<tvars, cache, m1>>

Memoize0Call == Memoize0As("return")

Memoize0Throws == Memoize0As("throw")

\* The number of invocations of fn that threw.
Throws == Cardinality({i \in 1..Len(mlog) : mlog[i].threw})

\* A call of the wrapper of memoizeOne, in which fn, if invoked, does `will`.
MemoizeOneAs(will) ==
    \E args \in ArgTuples :
        /\ Len(mlog) < MaxMemoCalls
        /\ LET r == memoizeOne(m1, args, will)
           IN  /\ will = "throw" => r.threw /\ Throws < MaxThrows
               /\ m1' = r.m
               /\ mlog' = Logged(args, r)
        /\ UNCHANGED <<tvars, cache, m0>>

MemoizeOneCall == MemoizeOneAs("return")

MemoizeOneThrows == MemoizeOneAs("throw")

\* The memoized wrappers are used with a limiter of the default options
\* that is never called.
InitMemo == Init /\ leading /\ trailing /\ ~debounce /\ ms = 0

NextMemoize == MemoizeCall

SpecMemoize == InitMemo /\ [][NextMemoize]_vars

NextMemoize0 == Memoize0Call \/ Memoize0Throws

SpecMemoize0 == InitMemo /\ [][NextMemoize0]_vars

NextMemoizeOne == MemoizeOneCall \/ MemoizeOneThrows

SpecMemoizeOne == InitMemo /\ [][NextMemoizeOne]_vars

----------------------------------------------------------------------------
\* C1: with only calls of the wrapper and timer firings, any two consecutive
\* executions of fn are at least `ms` apart, and the timer callback ran
\* between them.
RateLimit ==
    Len(execs) >= 2 => lastGap >= ms /\ lastFired

\* Two executions a positive delay apart, the second on the leading edge.
RateLimitWitness ==
    /\ Len(execs) >= 2
    /\ ms > 0
    /\ lastGap = ms
    /\ execs[Len(execs)].by = "call"

\* The last execution of fn.
LastExec == execs[Len(execs)]

\* The last step executed fn exactly once.
ExecutedOnce == Len(execs) = prev.count + 1

\* The last step did not execute fn.
ExecutedNothing == Len(execs) = prev.count

\* C2: a trailing execution (timer callback or flush) that finds a call
\* pending invokes fn exactly once, with the arguments of the most recent
\* call; arguments overwritten while pending are never passed to fn.
LatestCallWins ==
    /\ \A i \in 1..Len(execs) :
          /\ execs[i].by \in {"timer", "flush"} => execs[i].args = <<execs[i].n>>
          /\ execs[i].args \notin lost
    /\ (op \in {"timer", "flush"} /\ prev.pending # Undefined /\ trailing) =>
          /\ ExecutedOnce
          /\ LastExec.args = <<nCalls>>
          /\ LastExec.args = prev.pending[1]

\* Two calls arrived in an open window and the timer callback delivered the
\* second of them.
LatestCallWinsWitness ==
    /\ op = "timer"
    /\ trailing
    /\ prev.pending = << <<3>> >>
    /\ lost = {<<2>>}
    /\ LastExec.args = <<3>>

\* The scenario of C3: leading and trailing, two calls so far, the first on
\* an idle limiter and the second while the window it opened is still open
\* and before the delay has elapsed.
TwoCallsInWindow ==
    /\ leading /\ trailing
    /\ nCalls = 2
    /\ calls[1].idle
    /\ ~calls[2].idle
    /\ calls[2].gap < ms

\* C3, as stated: the first call is executed at once, the second is not, and
\* without further calls fn is not executed again.
LeadingOnlyWindowAsStated ==
    /\ (leading /\ nCalls >= 1) =>
          /\ Len(execs) >= 1
          /\ execs[1] = [args |-> <<1>>, by |-> "call", n |-> 1]
    /\ TwoCallsInWindow => Len(execs) = 1

\* C3, amended: the first call is executed at once; the second is not
\* executed in the call but stays pending with the timer armed, the timer
\* callback executes it exactly once, and without further calls fn is not
\* executed after that.
LeadingThenTrailing ==
    /\ (leading /\ nCalls >= 1) =>
          /\ Len(execs) >= 1
          /\ execs[1] = [args |-> <<1>>, by |-> "call", n |-> 1]
    /\ TwoCallsInWindow =>
          /\ Len(execs) \in {1, 2}
          /\ op = "call" => Len(execs) = 1
          /\ Len(execs) = 1 =>
                /\ pending = << <<2>> >>
                /\ \E t \in timers : t.id = timeout
          /\ Len(execs) = 2 =>
                /\ pending = Undefined
                /\ execs[2] = [args |-> <<2>>, by |-> "timer", n |-> 2]
                /\ lastGap = ms
          /\ (op = "timer" /\ prev.pending # Undefined) => Len(execs) = 2

\* The second call was delivered by the timer callback and the limiter has
\* since fallen idle.
LeadingThenTrailingWitness ==
    /\ TwoCallsInWindow
    /\ Len(execs) = 2
    /\ timeout = NoHandle
    /\ op = "timer"

\* C4: no argument tuple is passed to fn twice.
NoDoubleExecution ==
    \A i, j \in 1..Len(execs) : i # j => execs[i].args # execs[j].args

\* A call executed on the leading edge, whose window's timer has fired and
\* after which flush() was called, has been executed once.
NoDoubleExecutionWitness ==
    /\ nCalls = 1
    /\ execs = <<[args |-> <<1>>, by |-> "call", n |-> 1]>>
    /\ fired
    /\ op = "flush"

\* C5: with leading=false and trailing=true no call executes fn
\* synchronously; a call on an idle limiter stays pending with a timer armed
\* for the full delay, and when the timer armed by that call fires fn is
\* executed exactly once, with that call's arguments and a full delay after
\* it when no other call came in between.
NoLeading ==
    (~leading /\ trailing) =>
        /\ \A i \in 1..Len(execs) : execs[i].by # "call"
        /\ (op = "call" /\ prev.timeout = NoHandle) =>
              /\ ExecutedNothing
              /\ pending = << <<nCalls>> >>
              /\ timers = {[id |-> timeout, left |-> ms]}
        /\ (op = "timer" /\ prev.armed.by = "call" /\ calls[prev.armed.n].idle) =>
              /\ ExecutedOnce
              /\ LastExec.by = "timer"
              /\ \A i \in 1..(Len(execs) - 1) : execs[i].args # LastExec.args
              /\ prev.armed.n = nCalls =>
                    /\ LastExec.args = <<nCalls>>
                    /\ lastAge = ms

\* A single call on an idle limiter was executed by the timer it armed.
NoLeadingWitness ==
    /\ ~leading /\ trailing
    /\ ms > 0
    /\ op = "timer"
    /\ prev.armed = [by |-> "call", n |-> 1]
    /\ execs = <<[args |-> <<1>>, by |-> "timer", n |-> 1]>>

\* C6: with leading=false, debounce=true and trailing=true, a call in an
\* open window replaces the armed timer by a fresh one for the full delay, so
\* a pending call's timer cannot fire before a full delay has passed since
\* the most recent call; fn is executed only by the timer callback, a full
\* delay after the most recent call, once, with that call's arguments.
Debounce ==
    (~leading /\ debounce /\ trailing) =>
        /\ (op = "call" /\ prev.timeout # NoHandle) =>
              /\ ExecutedNothing
              /\ timers = {[id |-> timeout, left |-> ms]}
              /\ timeout # prev.timeout
              /\ armed = [by |-> "call", n |-> nCalls]
        /\ pending # Undefined =>
              \E t \in timers : t.id = timeout /\ t.left >= ms - sinceCall
        /\ \A i \in 1..Len(execs) :
              /\ execs[i].by = "timer"
              /\ execs[i].args = <<execs[i].n>>
              /\ \A j \in 1..Len(execs) : execs[j].args = execs[i].args => j = i
        /\ Len(execs) >= 1 => lastAge = ms
        /\ (op = "timer" /\ prev.pending # Undefined) => ExecutedOnce

\* Three calls, each later than the one before and inside the window, and
\* one execution, of the third.
DebounceWitness ==
    /\ ~leading /\ debounce /\ trailing
    /\ nCalls = 3
    /\ calls[2].gap > 0 /\ ~calls[2].idle
    /\ calls[3].gap > 0 /\ ~calls[3].idle
    /\ execs = <<[args |-> <<3>>, by |-> "timer", n |-> 3]>>

\* C7: with trailing=false fn is executed only inside a call of the wrapper,
\* and only for a call that arrived on an idle limiter; the timer callback
\* and flush() execute nothing.
SkipTrailing ==
    ~trailing =>
        /\ \A i \in 1..Len(execs) :
              /\ execs[i].by = "call"
              /\ calls[execs[i].args[1]].idle
        /\ op \in {"timer", "flush"} => ExecutedNothing

\* A call that arrived in an open window was pending when flush() ran, after
\* an earlier one had been pending when the timer fired.
SkipTrailingWitness ==
    /\ ~trailing /\ leading
    /\ op = "flush"
    /\ prev.pending = << <<3>> >>
    /\ prev.armed.by = "timer"
    /\ Len(execs) = 1

\* C8: flush() leaves no call pending; with trailing=true a pending call is
\* executed by it exactly once, with the pending arguments; otherwise
\* flush() executes nothing.
FlushDelivers ==
    op = "flush" =>
        /\ pending = Undefined
        /\ (prev.pending # Undefined /\ trailing) =>
              /\ ExecutedOnce
              /\ LastExec = [args |-> prev.pending[1], by |-> "flush", n |-> nCalls]
        /\ (prev.pending = Undefined \/ ~trailing) => ExecutedNothing

\* flush() executed a pending call while its timer still had time to run.
FlushDeliversWitness ==
    /\ op = "flush"
    /\ trailing
    /\ prev.pending # Undefined
    /\ \E t \in prev.timers : t.id = prev.timeout /\ t.left > 0
    /\ ExecutedOnce

\* C9: flush() on a limiter with no timer armed executes nothing, arms no
\* timer and leaves `pending`, `timeout` and the timer table as they were.
FlushIdleNoOp ==
    (op = "flush" /\ prev.timeout = NoHandle) =>
        /\ ExecutedNothing
        /\ pending = prev.pending
        /\ timeout = NoHandle
        /\ timers = prev.timers
        /\ timers = {}

\* flush() on a limiter that has been used and is idle again.
FlushIdleNoOpWitness ==
    /\ op = "flush"
    /\ prev.timeout = NoHandle
    /\ nCalls >= 1
    /\ execs # <<>>

\* C10, as stated: flush() right after a call leaves the limiter idle.
FlushAfterCallIdleAsStated ==
    (op = "flush" /\ prev.op = "call") =>
        /\ timeout = NoHandle
        /\ pending = Undefined

\* C10, amended: flush() right after a call leaves no call pending; it leaves
\* the limiter idle when the call had been executed on the leading edge
\* (nothing was pending), and a fresh timer for the full delay armed when the
\* call was pending.
FlushAfterCall ==
    (op = "flush" /\ prev.op = "call") =>
        /\ pending = Undefined
        /\ prev.pending = Undefined =>
              /\ timeout = NoHandle
              /\ timers = {}
        /\ prev.pending # Undefined =>
              /\ timeout # NoHandle
              /\ timers = {[id |-> timeout, left |-> ms]}

\* Both cases: flush() after a leading execution and flush() of a pending
\* call, the latter leaving a timer armed.
FlushAfterCallWitness ==
    /\ op = "flush" /\ prev.op = "call"
    /\ prev.pending # Undefined
    /\ timeout # NoHandle
    /\ Len(execs) = 2
    /\ execs[1].by = "call"

\* C11: flush() of a pending call leaves one fresh timer armed for the full
\* delay, and a call made right after that flush() is not executed in the
\* call but stored as pending.
FlushStartsInterval ==
    /\ (op = "flush" /\ prev.pending # Undefined) =>
          /\ timeout # NoHandle
          /\ timers = {[id |-> timeout, left |-> ms]}
          /\ armed = [by |-> "flush", n |-> nCalls]
    /\ (op = "call" /\ prev.op = "flush" /\ prev.timeout # NoHandle
            /\ prev.armed.by = "flush") =>
          /\ ExecutedNothing
          /\ pending = << <<nCalls>> >>

\* A call right after a flush() that executed a pending call, with leading
\* executions enabled.
FlushStartsIntervalWitness ==
    /\ leading /\ trailing
    /\ op = "call" /\ prev.op = "flush"
    /\ prev.armed.by = "flush" /\ prev.timeout # NoHandle
    /\ LastExec.by = "flush"
    /\ pending = << <<3>> >>

\* C12: every execution of fn after a clear() has the arguments of a call
\* made after that clear(), and no timer that was armed before the clear()
\* is left to run, or has run, the handler.
ClearSafety ==
    /\ \A i \in (clr.execs + 1)..Len(execs) : execs[i].args[1] > clr.calls
    /\ clr.old = {}
    /\ ~clr.fired
    /\ op = "clear" => timers = {}

\* The second call was pending with its timer armed when clear() was called;
\* it was never executed, and the call after the clear() was.
ClearSafetyWitness ==
    /\ leading /\ trailing
    /\ clr.calls = 2
    /\ clr.execs = 1
    /\ lost = {}
    /\ Len(execs) = 2
    /\ execs[2] = [args |-> <<3>>, by |-> "call", n |-> 3]
    /\ timeout = NoHandle

\* C13: after clear() the closure state and the timer table are those of a
\* newly constructed limiter: nothing pending, no timer handle, no scheduled
\* callback.  What the limiter does from a state depends on the options and
\* on these three only.
ClearResets ==
    op = "clear" =>
        /\ pending = Undefined
        /\ timeout = NoHandle
        /\ timers = {}

\* clear() with a call pending and its timer armed.
ClearResetsWitness ==
    /\ op = "clear"
    /\ prev.pending # Undefined
    /\ prev.timeout # NoHandle
    /\ prev.timers # {}

\* The limiter is idle: no timer handle, nothing pending, nothing scheduled.
Idle(st) ==
    /\ st.pending = Undefined
    /\ st.timeout = NoHandle
    /\ st.timers = {}

\* C14: clear() ends in no error; on an idle limiter it leaves the state as
\* it was, and a clear() after a clear() leaves the state of the first.
ClearIdempotent ==
    op = "clear" =>
        /\ ~outcome.error
        /\ ExecutedNothing
        /\ (Idle(prev) \/ prev.op = "clear") =>
              /\ pending = prev.pending
              /\ timeout = prev.timeout
              /\ timers = prev.timers

\* A second clear() right after one that discarded a pending call.
ClearIdempotentWitness ==
    /\ op = "clear"
    /\ prev.op = "clear"
    /\ Idle(prev)
    /\ nCalls >= 1
    /\ Len(execs) < nCalls

\* C15, as stated: a limiter constructed with a negative delay does not
\* exist, so it never accepts a call.
NegativeDelayRejected ==
    ms < 0 => nCalls = 0

\* C16, as stated: after a step in which fn threw, `pending` and whether a
\* timer is armed are what they would be had fn returned.
ThrowKeepsState ==
    outcome.error =>
        /\ pending = outcome.pending
        /\ (timeout # NoHandle) = outcome.armed

\* C20: between operations a call is pending only while a timer is armed:
\* `timeout` is then a handle and its callback is scheduled.  It holds also
\* after an operation that ended in an error thrown by fn.
PendingOnlyWhileArmed ==
    pending # Undefined =>
        /\ timeout # NoHandle
        /\ \E t \in timers : t.id = timeout

\* A call is pending in the window that a timer firing re-opened.
PendingOnlyWhileArmedWitness ==
    /\ pending # Undefined
    /\ op = "call"
    /\ prev.op = "timer"
    /\ prev.timeout # NoHandle
    /\ Len(execs) >= 1

\* Two arguments are the same argument to a Map-backed cache: the same
\* value, NaN being NaN and the two zeros being one.
SameArgument(a, b) == a = b \/ (a \in {"+0", "-0"} /\ b \in {"+0", "-0"})

\* The first call in the log with the argument of call j.
FirstWith(j) ==
    CHOOSE i \in 1..j :
        /\ SameArgument(mlog[i].args, mlog[j].args)
        /\ \A k \in 1..(i - 1) : ~SameArgument(mlog[k].args, mlog[j].args)

Memoize0Once ==
    \A i \in 1..Len(mlog) :
        (mlog[i].invoked /\ ~mlog[i].threw) =>
            /\ \A j \in (i + 1)..Len(mlog) :
                  /\ ~mlog[j].invoked
                  /\ mlog[j].ret = mlog[i].ret
            /\ \A j \in 1..(i - 1) : mlog[j].invoked /\ mlog[j].threw

\* fn threw, then returned `undefined`, and two more calls returned it.
Memoize0OnceWitness ==
    /\ Len(mlog) = 4
    /\ mlog[1].threw
    /\ mlog[2].invoked /\ ~mlog[2].threw /\ mlog[2].ret = "undefined"
    /\ ~mlog[3].invoked /\ ~mlog[4].invoked
    /\ mlog[4].ret = "undefined"

\* Two argument tuples differ in length or in an element.
Differ(a, b) ==
    \/ Len(a) # Len(b)
    \/ \E i \in 1..Len(a) : a[i] # b[i]

\* C19: a call invokes fn exactly when it is the first call or its argument
\* tuple differs from the tuple of the call before it; so the calls
\* A, A, B, B, A, A invoke fn three times.
MemoizeOneMostRecent ==
    /\ \A i \in 1..Len(mlog) :
          mlog[i].invoked <=> (i = 1 \/ Differ(mlog[i].args, mlog[i - 1].args))
    /\ \A A, B \in ArgTuples :
          (/\ A # B
           /\ Len(mlog) = 6
           /\ [i \in 1..6 |-> mlog[i].args] = <<A, A, B, B, A, A>>)
              => Invocations = 3

\* The calls A, A, B, B, A, A with A = (NaN, +0) and B = (NaN, -0), and the
\* results 1, 1, 2, 2, 3, 3.
MemoizeOneMostRecentWitness ==
    /\ Len(mlog) = 6
    /\ [i \in 1..6 |-> mlog[i].args]
           = << <<"NaN", "+0">>, <<"NaN", "+0">>, <<"NaN", "-0">>,
                <<"NaN", "-0">>, <<"NaN", "+0">>, <<"NaN", "+0">> >>
    /\ [i \in 1..6 |-> mlog[i].ret] = <<1, 1, 2, 2, 3, 3>>

\* C21: between operations, a timer handle is held exactly when one
\* scheduled callback is outstanding, and that callback is the one of the
\* handle; with no handle nothing is scheduled.  It holds also after an
\* operation that ended in an error thrown by fn.
OneTimerWhileOpen ==
    /\ timeout # NoHandle => \E t \in timers : timers = {t} /\ t.id = timeout
    /\ timeout = NoHandle => timers = {}

\* A debounce re-arm replaced the timer that a flush() had armed: one
\* callback is scheduled, under a handle other than the one before.
OneTimerWhileOpenWitness ==
    /\ debounce
    /\ op = "call"
    /\ prev.op = "flush"
    /\ prev.timeout # NoHandle
    /\ timeout # prev.timeout
    /\ Cardinality(timers) = 1

\* C22: when the timer callback runs with no call pending, fn is not
\* executed and the limiter is idle; when it runs with a call pending, the
\* call is no longer pending and one timer is armed for the full delay,
\* whatever `trailing` is.
TimerHandler ==
    op = "timer" =>
        /\ prev.pending = Undefined =>
              /\ ExecutedNothing
              /\ Idle([pending |-> pending, timeout |-> timeout, timers |-> timers])
        /\ prev.pending # Undefined =>
              /\ pending = Undefined
              /\ timeout # NoHandle
              /\ timers = {[id |-> timeout, left |-> ms]}
              /\ armed = [by |-> "timer", n |-> nCalls]

\* With trailing=false the timer callback found a call pending, dropped it
\* and armed a timer.
TimerHandlerWitness ==
    /\ ~trailing
    /\ ms > 0
    /\ op = "timer"
    /\ prev.pending # Undefined
    /\ ExecutedNothing
    /\ timeout # NoHandle

\* C23: with debounce=false a call in an open window changes `pending`
\* only: fn is not executed, and the handle, the scheduled callback and the
\* time left to it are as before.
OpenWindowCallFrame ==
    (~debounce /\ op = "call" /\ prev.timeout # NoHandle) =>
        /\ ExecutedNothing
        /\ pending = << <<nCalls>> >>
        /\ timeout = prev.timeout
        /\ timers = prev.timers
        /\ armed = prev.armed

\* A call in an open window whose timer has run for some time, replacing a
\* call that was pending.
OpenWindowCallFrameWitness ==
    /\ ~debounce
    /\ op = "call"
    /\ prev.pending # Undefined
    /\ \E t \in timers : t.id = timeout /\ 0 < t.left /\ t.left < ms

\* C24: flush() with a timer armed and nothing pending executes nothing,
\* cancels the timer and leaves the limiter idle; with leading=true a call
\* right after a flush() that left the limiter idle is executed in the call,
\* however short the time since the execution before.
FlushOpenWindowIdle ==
    /\ (op = "flush" /\ prev.timeout # NoHandle /\ prev.pending = Undefined) =>
          /\ ExecutedNothing
          /\ Idle([pending |-> pending, timeout |-> timeout, timers |-> timers])
    /\ (leading /\ op = "call" /\ prev.op = "flush" /\ prev.timeout = NoHandle) =>
          /\ ExecutedOnce
          /\ LastExec = [args |-> <<nCalls>>, by |-> "call", n |-> nCalls]

\* The calls of the test: a leading execution, a pending call flushed, a
\* second flush() and a call executed with no time passed since the flush.
FlushOpenWindowIdleWitness ==
    /\ leading /\ trailing
    /\ ms > 0
    /\ op = "call" /\ prev.op = "flush" /\ prev.timeout = NoHandle
    /\ Len(execs) = 3
    /\ execs[2].by = "flush"
    /\ lastGap = 0

Delivered ==
    nCalls > 0 => \E i \in 1..Len(execs) : execs[i].args = <<nCalls>>

\* C26: with trailing=true and no clear(), the most recent call is
\* eventually executed unless another call arrives, provided that every
\* scheduled callback that is due is eventually run.
EventualDelivery ==
    trailing ~> Delivered

\* A call in a window that a debounce re-arm extended was executed by the
\* timer callback.
EventualDeliveryWitness ==
    /\ trailing /\ debounce
    /\ nCalls = 3
    /\ ~calls[3].idle
    /\ op = "timer"
    /\ LastExec = [args |-> <<3>>, by |-> "timer", n |-> 3]

\* The limiter is idle now.
IdleNow == Idle([pending |-> pending, timeout |-> timeout, timers |-> timers])

\* After the last call of the wrapper the timer callback has run at most
\* twice, and after its second run the limiter is idle; a step other than a
\* call leaves an idle limiter idle and executes nothing.
QuiescenceSteps ==
    /\ firings <= 2
    /\ firings = 2 => IdleNow
    /\ (Idle(prev) /\ op \in {"timer", "flush", "tick"}) =>
          /\ ExecutedNothing
          /\ IdleNow

\* C27: once no further calls arrive the timer loop ends: the timer
\* callback runs at most twice after the last call, the limiter becomes
\* idle and from then on stays idle with no execution of fn, provided that
\* every scheduled callback that is due is eventually run.
Quiescence ==
    /\ []QuiescenceSteps
    /\ <>[]IdleNow

\* The timer callback ran twice after the last call: it executed the
\* pending call, re-armed, and found nothing pending.
QuiescenceWitness ==
    /\ firings = 2
    /\ op = "timer"
    /\ nCalls = 2
    /\ Len(execs) = 2
    /\ LastExec.by = "timer"

\* C29, as stated: after an operation in which fn called the wrapper, at
\* most one callback is scheduled and it is the one of the timer handle.
NoOrphanTimer ==
    outcome.reentered =>
        /\ Cardinality(timers) <= 1
        /\ \A t \in timers : t.id = timeout

\* C28: with leading=false and trailing=false fn is never executed.
NeverExecuted ==
    (~leading /\ ~trailing) => execs = <<>>

\* Three calls, a timer firing that dropped a pending call and a flush()
\* that dropped another, and no execution.
NeverExecutedWitness ==
    /\ ~leading /\ ~trailing
    /\ nCalls = 3
    /\ fired
    /\ op = "flush"
    /\ prev.pending # Undefined
    /\ execs = <<>>

\* C30, as stated: every value a call returns was returned by an invocation
\* of fn, in that call or before it, whose argument tuple does not differ
\* from the call's.
NeverStale ==
    \A j \in 1..Len(mlog) :
        ~mlog[j].threw =>
            \E i \in 1..j :
                /\ mlog[i].invoked
                /\ ~mlog[i].threw
                /\ mlog[i].ret = mlog[j].ret
                /\ ~Differ(mlog[i].args, mlog[j].args)

====
